---- MODULE Spec2Model ----
(***************************************************************************)
(* A model of cmhac/chat-extract: the two pipelines that turn a screen     *)
(* recording of a group chat into a table of messages.                     *)
(*                                                                         *)
(*   chat_extract       src/chat_extract/{extract,image_utils,models}.py   *)
(*   groupchat_text_extraction src/groupchat_text_extraction/main.py       *)
(*                                                                         *)
(* Spec         one run of extract_data_from_video, of either package,     *)
(*              with one asyncio task per sampled frame.                   *)
(* SpecSampler  extract_frames alone, over longer videos and more strides. *)
(* SpecPool     the semaphore-gated task pool with more frames than        *)
(*              permits; the tasks are counted, not named.                 *)
(* SpecPoolFair SpecPool with the fairness of the event loop, for what the *)
(*              pool eventually does.                                      *)
(* SpecRetry    one call of the retried function (extract_from_frame,      *)
(*              extract_data_from_image) with each attempt's outcome.      *)
(* SpecJson     get_json as a function of the model's reply.               *)
(* SpecToPolars Message construction and to_polars on the frames' replies. *)
(* SpecCleanup  cleanup_df as a function of its input table.               *)
(***************************************************************************)
EXTENDS Integers, Sequences, FiniteSets, TLC

(* ------------------------------ bounds --------------------------------- *)

\* Decoded frames of the video in a chat_extract run (Spec).
MaxDecoded == 3
\* Largest stride n of a chat_extract run (Spec).
MaxStride == 2
\* Sampled frames of a groupchat_text_extraction run (Spec).
MaxSampled == 2
\* Decoded frames of the video, and largest stride, in SpecSampler.
MaxSamplerFrames == 8
MaxSamplerStride == 4
\* In SpecPool, how many more frames than the semaphore has permits.
MaxExtraFrames == 2
\* Rows of the frame given to cleanup_df in SpecCleanup.
MaxRows == 3
\* Tokens of the reply text given to get_json in SpecJson.
MaxText == 3
\* Frames, and messages of one frame's reply, in SpecToPolars.
MaxBatches == 2
MaxMessages == 2

(* ------------------------- program constants --------------------------- *)

\* asyncio.Semaphore(20), extract.py:151
CHAT_SEMAPHORE == 20
\* asyncio.Semaphore(10), main.py:68
GROUPCHAT_SEMAPHORE == 10
\* stop_after_attempt(3), extract.py:179 and main.py:133
MAX_ATTEMPT == 3
\* extract_frames(video_path, 30, frame_dir), main.py:50
GROUPCHAT_N == 30

(* ------------------------------ values --------------------------------- *)

CHAT == "chat_extract"
GROUPCHAT == "groupchat_text_extraction"

\* Python's None in a field of a Message or a cell of the table.
Null == "None"

\* The placeholder tokens of PROMPT (extract.py:39-41), compared in cleanup_df.
SENDER_PLACEHOLDER == "<sender_name>"
MESSAGE_PLACEHOLDER == "<message_text>"
TIMESTAMP_PLACEHOLDER == "<timestamp>"

\* Message.model_dump(): the four fields of models.Message.
MessageColumns == {"sender", "message", "timestamp", "image_description"}

Message(s, m, t, d) ==
    [sender |-> s, message |-> m, timestamp |-> t, image_description |-> d]

\* The content of a file that a previous run left in the frames directory.
StaleData == 0 - 1

\* A file name: frame_<stem>.<ext>.
FileName(stem, ext) == [stem |-> stem, ext |-> ext]

\* chat_extract names a frame by saved_count (image_utils.py:46).
ChatFrameName(frame_count, saved_count) == FileName(saved_count, "jpg")

\* groupchat_text_extraction names a frame by frame_count (main.py:231).
GroupchatFrameName(frame_count, saved_count) == FileName(frame_count, "png")

(* ------------------------------ state ---------------------------------- *)

VARIABLES
    variant,          \* which package's extract_data_from_video runs
    api_key,          \* TRUE iff OPENAI_API_KEY is set
    confirm,          \* what input() returns when groupchat asks (main.py:38)
    video_frames,     \* F: frames cap.read() yields before ret is False
    n,                \* the stride
    pc,               \* where extract_data_from_video is
    error,            \* the exception the run ended with, or "none"
    files,            \* the frames directory: a set of [name, data]
    stale,            \* what the frames directory held when the run began
    frame_count,      \* extract_frames' locals
    saved_count,
    imwrites,         \* the calls of cv2.imwrite so far: <<name, data>>
    extracted_frames, \* the frame paths handed to the dispatcher
    semaphore,        \* asyncio.Semaphore._value
    tasks,            \* one record per frame's task (_extract_frame / process_frame)
    completed,        \* as_completed's order: <<i, payload>> of finished tasks
    remote,           \* per frame, the outcomes of the remote calls made so far
    message_lists,    \* what extract_from_video returned / extracted_data
    output,           \* the output file: NoFile or its content
    outcomes,         \* SpecRetry: how each attempt of the decorated call ended
    response,         \* SpecJson: the reply of the model given to get_json
    json_data,        \* SpecJson: what get_json returned or raised
    pool,             \* SpecPool: how many tasks are at each place
    table,            \* SpecCleanup: the frame given to cleanup_df
    cleaned           \* SpecCleanup: what cleanup_df returned

vars == <<variant, api_key, confirm, video_frames, n, pc, error, files, stale,
          frame_count, saved_count, imwrites, extracted_frames, semaphore,
          tasks, completed, remote, message_lists, output, outcomes, response,
          json_data, pool, table, cleaned>>

\* What no step of a run changes: the record of what the frames directory
\* held at first, and the variables of SpecRetry, SpecJson, SpecPool and
\* SpecCleanup.
aux == <<stale, outcomes, response, json_data, pool, table, cleaned>>


(* ----------------------- the inputs of a run --------------------------- *)

\* What is in the frames directory before the run: nothing, or an old frame
\* and a file that is no frame.
StaleFiles(v) ==
    { [name |-> FileName(0, IF v = CHAT THEN "jpg" ELSE "png"), data |-> StaleData],
      [name |-> FileName(0, "txt"), data |-> StaleData] }

\* The answers typed at groupchat's prompt.
Answers == {"y", " Y ", "n", "yes"}

\* confirm.strip().lower(), main.py:41, on the answers above.
StripLower(s) == IF s = " Y " THEN "y" ELSE s

\* The lengths of the videos of a groupchat run: 0, 1, 31, ... decoded frames,
\* which sample 0, 1, 2, ... frames at stride GROUPCHAT_N.
GroupchatVideos == {0} \cup { GROUPCHAT_N * (k - 1) + 1 : k \in 1..MaxSampled }

\* The message lists the model replies with in Spec.
Batches ==
    { <<>>,
      << Message("Alice", "Hello", "2022-01-01 12:00:00", Null) >> }

\* The exceptions of a remote call: a network/service error of the client, and
\* the parse error of a malformed reply (main.py:24).
ErrorKinds == {"APIConnectionError", "OpenAIResponseError"}

NoFile == [written |-> FALSE, columns |-> {}, rows |-> <<>>]

\* A reply of the model client, tagged with the image it was computed from;
\* NoneData is process_frame's `data = None` (main.py:76).
Reply(image, messages) == [none |-> FALSE, image |-> image, messages |-> messages]
NoneData == [none |-> TRUE, image |-> StaleData, messages |-> <<>>]

NoRemote == [calls |-> 0, failures |-> 0, reply |-> NoneData]

\* A task that gather has made and that has not run yet. image is what
\* encode_image read at the start of the task's current attempt.
NewTask ==
    [pc |-> "pending", attempt |-> 0, image |-> StaleData,
     result |-> NoneData, error |-> "none"]

(* ---------------------------- the files -------------------------------- *)

Names(fs) == { f.name : f \in fs }

Exists(fs, name) == name \in Names(fs)

\* open(image_path, "rb").read(), image_utils.py:12
ReadFile(fs, name) == (CHOOSE f \in fs : f.name = name).data

\* cv2.imwrite(frame_filename, frame): creates or overwrites the file.
WriteFile(fs, name, data) ==
    { f \in fs : f.name # name } \cup { [name |-> name, data |-> data] }

\* Path.unlink() / os.remove()
Unlink(fs, name) == { f \in fs : f.name # name }

RECURSIVE UnlinkAll(_, _)
UnlinkAll(fs, names) ==
    IF names = <<>> THEN fs
    ELSE UnlinkAll(Unlink(fs, Head(names)), Tail(names))

(* -------------------------- extract_frames ----------------------------- *)

\* frame_filename of the frame being saved.
FrameFilename(v, fc, sc) ==
    IF v = CHAT THEN ChatFrameName(fc, sc) ELSE GroupchatFrameName(fc, sc)

\* Mutant of IsNthFrame: the count is taken after the increment.
IsNthFrameOffByOne(fc, stride) == (fc + 1) % stride = 0

\* `if frame_count % n == 0`, image_utils.py:45 and main.py:230
IsNthFrame(fc, stride) == fc % stride = 0

\* One pass of the while loop in which cap.read() yields a frame.
ReadFrame ==
    /\ pc = "sampling"
    /\ frame_count < video_frames
    /\ IF IsNthFrame(frame_count, n)
       THEN LET name == FrameFilename(variant, frame_count, saved_count) IN
            /\ files' = WriteFile(files, name, frame_count)
            /\ imwrites' = Append(imwrites, <<name, frame_count>>)
            /\ saved_count' = saved_count + 1
            /\ extracted_frames' =
                   IF variant = CHAT THEN Append(extracted_frames, name)
                   ELSE extracted_frames
       ELSE UNCHANGED <<files, imwrites, saved_count, extracted_frames>>
    /\ frame_count' = frame_count + 1
    /\ UNCHANGED <<variant, api_key, confirm, video_frames, n, pc, error,
                   semaphore, tasks, completed, remote, message_lists, output>>
    /\ UNCHANGED aux

\* The pass in which cap.read() returns ret = False: break, release, return.
EndOfStream ==
    /\ pc = "sampling"
    /\ frame_count = video_frames
    /\ pc' = "sampled"
    /\ UNCHANGED <<variant, api_key, confirm, video_frames, n, error, files,
                   frame_count, saved_count, imwrites, extracted_frames,
                   semaphore, tasks, completed, remote, message_lists, output>>
    /\ UNCHANGED aux


(* ------------------- the run, up to the dispatcher --------------------- *)

\* Mutant of UnlinkExisting: only the frames (*.jpg) are unlinked.
UnlinkExistingFrames(existing_files) ==
    { f \in existing_files : f.name.ext # "jpg" }

\* `for file in existing_files: file.unlink()`, extract.py:141-144: what is
\* left of the directory's files.
UnlinkExisting(existing_files) == existing_files \ existing_files

\* ChatTextExtractor.__init__ (extract.py:97-112) and the start of
\* extract_from_video (extract.py:129-144): the credential is checked, then
\* every file of the frames directory is unlinked, unasked.
ChatStart ==
    /\ pc = "start"
    /\ variant = CHAT
    /\ IF ~api_key
       THEN /\ pc' = "raised"
            /\ error' = "ValueError: OPENAI_API_KEY"
            /\ UNCHANGED files
       ELSE /\ pc' = "sampling"
            /\ files' = UnlinkExisting(files)
            /\ UNCHANGED error
    /\ UNCHANGED <<variant, api_key, confirm, video_frames, n, frame_count,
                   saved_count, imwrites, extracted_frames, semaphore, tasks,
                   completed, remote, message_lists, output>>
    /\ UNCHANGED aux

\* Mutant of Confirmed: every answer but n lets the files be deleted.
ConfirmedUnlessNo(answer) == StripLower(answer) # "n"

\* confirm.strip().lower() == "y", main.py:41
Confirmed(answer) == StripLower(answer) = "y"

\* groupchat's extract_data_from_video up to extract_frames (main.py:32-47):
\* a non-empty frames directory is emptied if the user answers y, and the run
\* raises otherwise.
GroupchatStart ==
    /\ pc = "start"
    /\ variant = GROUPCHAT
    /\ IF files = {}
       THEN /\ pc' = "sampling"
            /\ UNCHANGED <<files, error>>
       ELSE IF Confirmed(confirm)
       THEN /\ pc' = "sampling"
            /\ files' = {}
            /\ UNCHANGED error
       ELSE /\ pc' = "raised"
            /\ error' = "ValueError: Frames directory must be empty"
            /\ UNCHANGED files
    /\ UNCHANGED <<variant, api_key, confirm, video_frames, n, frame_count,
                   saved_count, imwrites, extracted_frames, semaphore, tasks,
                   completed, remote, message_lists, output>>
    /\ UNCHANGED aux

\* sorted(frame_dir.glob("*.png")), main.py:53: the png files by name.
RECURSIVE SortedStems(_)
SortedStems(stems) ==
    IF stems = {} THEN <<>>
    ELSE LET m == CHOOSE x \in stems : \A y \in stems : x <= y
         IN  <<m>> \o SortedStems(stems \ {m})

GlobPng(fs) ==
    LET stems == { f.name.stem : f \in { g \in fs : g.name.ext = "png" } }
        sorted == SortedStems(stems)
    IN  [k \in 1..Len(sorted) |-> FileName(sorted[k], "png")]

\* One task per frame, each waiting for the semaphore.
NewTasks(frames) == [k \in 1..Len(frames) |-> NewTask]

\* extract.py:147-166: the semaphore and the tasks of gather.
ChatDispatch ==
    /\ pc = "sampled"
    /\ variant = CHAT
    /\ pc' = "dispatch"
    /\ semaphore' = CHAT_SEMAPHORE
    /\ tasks' = NewTasks(extracted_frames)
    /\ remote' = [k \in 1..Len(extracted_frames) |-> NoRemote]
    /\ UNCHANGED <<variant, api_key, confirm, video_frames, n, error, files,
                   frame_count, saved_count, imwrites, extracted_frames,
                   completed, message_lists, output>>
    /\ UNCHANGED aux

\* main.py:52-82: the frames are listed, the credential is checked, and the
\* semaphore and the tasks of gather are made.
GroupchatDispatch ==
    /\ pc = "sampled"
    /\ variant = GROUPCHAT
    /\ LET frames == GlobPng(files) IN
       IF frames = <<>>
       THEN /\ pc' = "raised"
            /\ error' = "ValueError: No frames found in the directory"
            /\ UNCHANGED <<extracted_frames, semaphore, tasks, remote>>
       ELSE IF ~api_key
       THEN /\ pc' = "raised"
            /\ error' = "ValueError: OPENAI_API_KEY"
            /\ extracted_frames' = frames
            /\ UNCHANGED <<semaphore, tasks, remote>>
       ELSE /\ pc' = "dispatch"
            /\ extracted_frames' = frames
            /\ semaphore' = GROUPCHAT_SEMAPHORE
            /\ tasks' = NewTasks(frames)
            /\ remote' = [k \in 1..Len(frames) |-> NoRemote]
            /\ UNCHANGED error
    /\ UNCHANGED <<variant, api_key, confirm, video_frames, n, files,
                   frame_count, saved_count, imwrites, completed,
                   message_lists, output>>
    /\ UNCHANGED aux


(* --------------------------- the model client -------------------------- *)

\* Mutant of stop_after_attempt: the decorator allows one attempt more.
stop_after_four_attempts(attempt_number) == attempt_number >= MAX_ATTEMPT + 1

\* Mutant of stop_after_attempt: the decorator gives up one attempt early.
stop_after_two_attempts(attempt_number) == attempt_number >= MAX_ATTEMPT - 1

\* stop=stop_after_attempt(3), extract.py:179 and main.py:133
stop_after_attempt(attempt_number) == attempt_number >= MAX_ATTEMPT

\* Which exceptions the retry decorator retries: every exception in
\* chat_extract (extract.py:177-181, no retry= argument), only
\* OpenAIResponseError in groupchat_text_extraction (main.py:132).
ShouldRetry(v, kind) == v = CHAT \/ kind = "OpenAIResponseError"

\* What leaves the decorated call when no attempt is left: the last exception
\* with reraise=True (extract.py:180), tenacity's RetryError without
\* (main.py:131-135).
Reraised(v, kind) == IF v = CHAT THEN kind ELSE "RetryError"

\* The task record after an attempt of the task failed with `kind`: another
\* attempt, or the exception leaves extract_from_frame / extract_data_from_image.
AfterFailure(v, t, kind) ==
    IF ShouldRetry(v, kind)
    THEN IF stop_after_attempt(t.attempt)
         THEN [t EXCEPT !.pc = "raised", !.error = Reraised(v, kind)]
         ELSE [t EXCEPT !.pc = "ready", !.attempt = @ + 1]
    ELSE [t EXCEPT !.pc = "raised", !.error = kind]

(* ------------------------------ the tasks ------------------------------ *)

\* Mutant of Locked: the semaphore never blocks.
NeverLocked(value) == FALSE

\* asyncio.Semaphore.locked(): acquire() waits while it holds.
Locked(value) == value = 0

\* Mutant of Released: the permit is given back only when the block is left
\* without an exception.
ReleasedOnReturn(value, raised) == IF raised THEN value ELSE value + 1

\* Semaphore.__aexit__ at the end of `async with semaphore:` (extract.py:154,
\* main.py:71): release() is called whether or not an exception leaves the
\* block.
Released(value, raised) == value + 1

\* Tasks run while gather is awaited, and after gather has raised until the
\* event loop cancels them (cli.py:40, asyncio.run).
TasksRun == pc \in {"dispatch", "raised"}

\* `return index, result` (extract.py:156); `return data` (main.py:79).
Payload(v, i, result) == IF v = CHAT THEN <<i - 1, result>> ELSE result

Holding(t) == t.pc \in {"ready", "calling"}

InFlight == { i \in DOMAIN tasks : tasks[i].pc = "calling" }

\* `async with semaphore:` is entered (extract.py:154, main.py:71).
Acquire(i) ==
    /\ TasksRun
    /\ tasks[i].pc = "pending"
    /\ ~Locked(semaphore)
    /\ semaphore' = semaphore - 1
    /\ tasks' = [tasks EXCEPT ![i] = [@ EXCEPT !.pc = "ready", !.attempt = 1]]
    /\ UNCHANGED <<variant, api_key, confirm, video_frames, n, pc, error, files,
                   frame_count, saved_count, imwrites, extracted_frames,
                   completed, remote, message_lists, output>>
    /\ UNCHANGED aux

\* Mutant of Removed: the task removes every frame of the directory.
RemovedEveryFrame(fs, name, err) == { f \in fs : f.name.ext # name.ext }

\* Mutant of Removed: os.remove stands at the end of the try body, and is
\* skipped when the call raised.
RemovedOnSuccess(fs, name, err) == IF err = "none" THEN Unlink(fs, name) ELSE fs

\* `finally: os.remove(frame)`, main.py:77-78: the frame is removed whether
\* extract_data_from_image returned or raised `err`.
Removed(fs, name, err) == Unlink(fs, name)

\* The task's coroutine ends with `result`: the semaphore is released and
\* as_completed yields the task. In groupchat the frame is removed first
\* (main.py:77-78), and a frame that is gone makes os.remove raise.
Finish(i, result, err) ==
    IF variant = GROUPCHAT /\ ~Exists(files, extracted_frames[i])
    THEN /\ tasks' = [tasks EXCEPT ![i] =
                        [@ EXCEPT !.pc = "raised", !.error = "FileNotFoundError"]]
         /\ semaphore' = Released(semaphore, TRUE)
         /\ pc' = "raised"
         /\ error' = IF pc = "dispatch" THEN "FileNotFoundError" ELSE error
         /\ UNCHANGED <<files, completed>>
    ELSE /\ tasks' = [tasks EXCEPT ![i] =
                        [@ EXCEPT !.pc = "returned", !.result = result, !.error = err]]
         /\ semaphore' = Released(semaphore, FALSE)
         /\ completed' = Append(completed, <<i, Payload(variant, i, result)>>)
         /\ files' = IF variant = GROUPCHAT
                     THEN Removed(files, extracted_frames[i], err) ELSE files
         /\ UNCHANGED <<pc, error>>

\* An attempt of task i failed with `kind`. The decorator retries, or the
\* exception leaves the call: in chat_extract it leaves the task and gather
\* (extract.py:154-166); in groupchat it is caught and the task's data is None
\* (main.py:74-76).
Fail(i, kind) ==
    LET t == AfterFailure(variant, tasks[i], kind) IN
    IF t.pc = "ready"
    THEN /\ tasks' = [tasks EXCEPT ![i] = t]
         /\ UNCHANGED <<semaphore, completed, files, pc, error>>
    ELSE IF variant = CHAT
    THEN /\ tasks' = [tasks EXCEPT ![i] = t]
         /\ semaphore' = Released(semaphore, TRUE)
         /\ pc' = "raised"
         /\ error' = IF pc = "dispatch" THEN t.error ELSE error
         /\ UNCHANGED <<completed, files>>
    ELSE Finish(i, NoneData, t.error)

\* An attempt begins: encode_image reads the frame (extract.py:194,
\* main.py:154) and the request is sent.
BeginAttempt(i) ==
    /\ TasksRun
    /\ tasks[i].pc = "ready"
    /\ IF Exists(files, extracted_frames[i])
       THEN /\ tasks' = [tasks EXCEPT ![i] =
                  [@ EXCEPT !.pc = "calling",
                            !.image = ReadFile(files, extracted_frames[i])]]
            /\ remote' = [remote EXCEPT ![i].calls = @ + 1]
            /\ UNCHANGED <<semaphore, completed, files, pc, error>>
       ELSE /\ Fail(i, "FileNotFoundError")
            /\ UNCHANGED remote
    /\ UNCHANGED <<variant, api_key, confirm, video_frames, n, frame_count,
                   saved_count, imwrites, extracted_frames, message_lists,
                   output>>
    /\ UNCHANGED aux

\* The remote call of task i returns a reply that parses into `messages`.
RemoteReturns(i, messages) ==
    /\ TasksRun
    /\ tasks[i].pc = "calling"
    /\ LET reply == Reply(tasks[i].image, messages) IN
       /\ remote' = [remote EXCEPT ![i].reply = reply]
       /\ Finish(i, reply, "none")
    /\ UNCHANGED <<variant, api_key, confirm, video_frames, n, frame_count,
                   saved_count, imwrites, extracted_frames, message_lists,
                   output>>
    /\ UNCHANGED aux

\* The remote call of task i raises, or its reply does not parse.
RemoteFails(i, kind) ==
    /\ TasksRun
    /\ tasks[i].pc = "calling"
    /\ remote' = [remote EXCEPT ![i].failures = @ + 1]
    /\ Fail(i, kind)
    /\ UNCHANGED <<variant, api_key, confirm, video_frames, n, frame_count,
                   saved_count, imwrites, extracted_frames, message_lists,
                   output>>
    /\ UNCHANGED aux

\* asyncio.run (cli.py:40) cancels the tasks still pending when
\* extract_data_from_video has raised; a cancelled holder releases its permit.
CancelAllTasks ==
    /\ pc = "raised"
    /\ \E i \in DOMAIN tasks : tasks[i].pc \in {"pending", "ready", "calling"}
    /\ tasks' = [i \in DOMAIN tasks |->
                    IF tasks[i].pc \in {"pending", "ready", "calling"}
                    THEN [tasks[i] EXCEPT !.pc = "cancelled"] ELSE tasks[i]]
    /\ semaphore' = semaphore + Cardinality({ i \in DOMAIN tasks : Holding(tasks[i]) })
    /\ UNCHANGED <<variant, api_key, confirm, video_frames, n, pc, error, files,
                   frame_count, saved_count, imwrites, extracted_frames,
                   completed, remote, message_lists, output>>
    /\ UNCHANGED aux


(* ------------------------------ cleanup_df ----------------------------- *)

\* Mutant of ReplacePlaceholder: a cell holding the placeholder of any column
\* is replaced, not only the placeholder of its own column.
ReplaceAnyPlaceholder(value, token) ==
    IF value \in {SENDER_PLACEHOLDER, MESSAGE_PLACEHOLDER, TIMESTAMP_PLACEHOLDER}
    THEN Null ELSE value

\* pl.when(pl.col(c) == token).then(None).otherwise(pl.col(c)),
\* extract.py:238-246; a null cell compares as null and stays null.
ReplacePlaceholder(value, token) == IF value = token THEN Null ELSE value

\* with_columns on one row (extract.py:237-247).
WithColumns(r) ==
    [r EXCEPT !.sender = ReplacePlaceholder(@, SENDER_PLACEHOLDER),
              !.message = ReplacePlaceholder(@, MESSAGE_PLACEHOLDER),
              !.timestamp = ReplacePlaceholder(@, TIMESTAMP_PLACEHOLDER)]

\* Mutant of NotEntirelyNull: a row is kept only when none of the three
\* columns is null (the three tests joined by & instead of |).
NotNullAnywhere(r) == r.sender # Null /\ r.message # Null /\ r.timestamp # Null

\* The predicate of df.filter (extract.py:250-254).
NotEntirelyNull(r) == r.sender # Null \/ r.message # Null \/ r.timestamp # Null

\* Mutant of Unique: of the rows equal in every column the last is kept
\* (keep="last").
RECURSIVE UniqueKeepLast(_)
UniqueKeepLast(rows) ==
    IF rows = <<>> THEN <<>>
    ELSE LET rest == UniqueKeepLast(Tail(rows))
         IN  IF \E k \in 1..Len(rest) : rest[k] = Head(rows) THEN rest
             ELSE <<Head(rows)>> \o rest

\* df.unique(maintain_order=True), extract.py:257: of the rows equal in every
\* column the first is kept, and the kept rows stay in their order.
RECURSIVE Unique(_)
Unique(rows) ==
    IF rows = <<>> THEN <<>>
    ELSE LET init == Unique(SubSeq(rows, 1, Len(rows) - 1))
             last == rows[Len(rows)]
         IN  IF \E k \in 1..Len(init) : init[k] = last THEN init
             ELSE Append(init, last)

\* The columns cleanup_df names; polars raises ColumnNotFoundError when the
\* frame lacks one (extract.py:238-246).
CleanupColumns == {"sender", "message", "timestamp"}

CleanupRaises(df) == ~(CleanupColumns \subseteq df.columns)

\* Mutant of cleanup_df: the all-null rows are dropped before the
\* placeholders are replaced.
cleanup_df_filter_first(df) ==
    [df EXCEPT !.rows =
        Unique([k \in 1..Len(SelectSeq(df.rows, NotEntirelyNull)) |->
                    WithColumns(SelectSeq(df.rows, NotEntirelyNull)[k])])]

cleanup_df(df) ==
    [df EXCEPT !.rows =
        Unique(SelectSeq([k \in 1..Len(df.rows) |-> WithColumns(df.rows[k])],
                         NotEntirelyNull))]

(* ------------------------------ to_polars ------------------------------ *)

\* Mutant of RowData: each list's messages are put before those of the lists
\* before it.
RECURSIVE RowDataPrepended(_)
RowDataPrepended(lists) ==
    IF lists = <<>> THEN <<>>
    ELSE RowDataPrepended(Tail(lists)) \o Head(lists).messages

\* row_data of to_polars (extract.py:223-226): the messages of every list, in
\* the order of the lists.
RECURSIVE RowData(_)
RowData(lists) ==
    IF lists = <<>> THEN <<>>
    ELSE Head(lists).messages \o RowData(Tail(lists))

\* pl.DataFrame(row_data), extract.py:227: the columns are the keys of the
\* rows, and a frame made from no row has no column.
DataFrame(row_data) ==
    [columns |-> IF row_data = <<>> THEN {} ELSE MessageColumns,
     rows |-> row_data]

to_polars(lists) == DataFrame(RowData(lists))

(* ------------------------------- get_json ------------------------------ *)

\* A reply text is a sequence of tokens: the braces, `"k":` (a key with its
\* colon), a scalar, a word that is no JSON, and a line break.
Tokens == {"{", "}", "k:", "1", "word", "\n"}

\* What a call gives: a value, or the exception it raised.
Returns(value) == [raised |-> "none", value |-> value]
Raises(exception) == [raised |-> exception, value |-> <<>>]

\* The text without its line breaks, which JSON allows between tokens.
RECURSIVE SkipWhitespace(_)
SkipWhitespace(text) ==
    IF text = <<>> THEN <<>>
    ELSE IF Head(text) = "\n" THEN SkipWhitespace(Tail(text))
    ELSE <<Head(text)>> \o SkipWhitespace(Tail(text))

\* The JSON values over the tokens: a scalar, {} and {"k": value}.
RECURSIVE IsJsonValue(_)
IsJsonValue(t) ==
    \/ t = <<"1">>
    \/ t = <<"{", "}">>
    \/ /\ Len(t) >= 4
       /\ t[1] = "{" /\ t[2] = "k:" /\ t[Len(t)] = "}"
       /\ IsJsonValue(SubSeq(t, 3, Len(t) - 1))

\* orjson.loads (main.py:181, 190): the value of a text that is one JSON
\* value, orjson.JSONDecodeError for any other text.
loads(text) ==
    IF IsJsonValue(SkipWhitespace(text))
    THEN Returns(SkipWhitespace(text))
    ELSE Raises("JSONDecodeError")

\* The positions i..j that `\{.*\}` can match: a { and a later } with no line
\* break between them (`.` matches no line break).
BraceSpans(text) ==
    { span \in (1..Len(text)) \X (1..Len(text)) :
        /\ span[1] < span[2]
        /\ text[span[1]] = "{"
        /\ text[span[2]] = "}"
        /\ \A m \in span[1]..span[2] : text[m] # "\n" }

\* re.search(r"\{.*\}", response_text), main.py:175: the leftmost match, as
\* long as it can be; <<>> stands for None.
re_search(text) ==
    IF BraceSpans(text) = {} THEN <<>>
    ELSE LET first == CHOOSE i \in { sp[1] : sp \in BraceSpans(text) } :
                          \A sp \in BraceSpans(text) : i <= sp[1]
             last == CHOOSE j \in { sp[2] : sp \in BraceSpans(text) } :
                          /\ <<first, j>> \in BraceSpans(text)
                          /\ \A sp \in BraceSpans(text) :
                                sp[1] = first => sp[2] <= j
         IN  SubSeq(text, first, last)

\* main.py:173-181
extract_json_from_text(response_text) ==
    LET json_match == re_search(response_text) IN
    IF json_match = <<>> THEN Raises("OpenAIResponseError")
    ELSE loads(json_match)

\* response.output[output_index].content[0].text, main.py:187: the text, or
\* the AttributeError / IndexError of a reply of another shape.
ResponseText(r) ==
    IF r.shape \in {"no output", "no content"} THEN Raises("AttributeError")
    ELSE IF r.shape \in {"empty output", "empty content"} THEN Raises("IndexError")
    ELSE Returns(r.text)

\* The exceptions get_json's except clause turns into OpenAIResponseError
\* (main.py:194).
Caught == {"AttributeError", "IndexError", "OpenAIResponseError"}

\* main.py:184-199
get_json(r) ==
    LET response_text == ResponseText(r)
        tried == IF response_text.raised # "none" THEN response_text
                 ELSE IF loads(response_text.value).raised = "JSONDecodeError"
                 THEN extract_json_from_text(response_text.value)
                 ELSE loads(response_text.value)
    IN  IF tried.raised \in Caught THEN Raises("OpenAIResponseError") ELSE tried

(* ------------------------------- Message ------------------------------- *)

\* The timestamps of the replies that datetime.fromisoformat accepts.
IsoFormat == {"2022-01-01 12:00:00", "2022-02-02 14:00:00"}

\* Message.parse_timestamp (models.py:19-28): a string becomes a datetime, a
\* string that is no ISO date raises ValueError, None is returned as it is.
parse_timestamp(v) ==
    IF v = Null THEN Returns(v)
    ELSE IF v \in IsoFormat THEN Returns([datetime |-> v])
    ELSE Raises("ValueError")

\* Mutant of FieldValidators: @field_validator is the outer decorator, and
\* pydantic registers parse_timestamp for the timestamp field.
ValidatorsAsIntended(field) ==
    IF field = "timestamp" THEN {"parse_timestamp"} ELSE {}

\* The validators pydantic registers for a field of Message. It collects the
\* class attributes that are what field_validator returned; parse_timestamp
\* is that object wrapped again by @classmethod (models.py:17-18), so it is
\* not collected and no field has a validator.
FieldValidators(field) == {}

\* Message(**kwargs), models.py:9-28: the registered validators run and the
\* values are stored; a str fits the annotation of every field.
NewMessage(kwargs) ==
    LET timestamp == IF "parse_timestamp" \in FieldValidators("timestamp")
                     THEN parse_timestamp(kwargs.timestamp)
                     ELSE Returns(kwargs.timestamp)
    IN  IF timestamp.raised # "none" THEN Raises("ValidationError")
        ELSE Returns([kwargs EXCEPT !.timestamp = timestamp.value])

\* MessageList(messages=[...]), models.py:31-34
NewMessageList(messages) ==
    IF \E k \in 1..Len(messages) : NewMessage(messages[k]).raised # "none"
    THEN Raises("ValidationError")
    ELSE Returns([k \in 1..Len(messages) |-> NewMessage(messages[k]).value])

(* ------------------------- gather and after ---------------------------- *)

AllReturned == \A i \in DOMAIN tasks : tasks[i].pc = "returned"

\* A stable ascending sort of pairs by their first component, as Python's
\* sorted() and list.sort() do on pairs whose first components differ.
RECURSIVE InsertByKey(_, _)
InsertByKey(x, s) ==
    IF s = <<>> THEN <<x>>
    ELSE IF x[1] < Head(s)[1] THEN <<x>> \o s
    ELSE <<Head(s)>> \o InsertByKey(x, Tail(s))

RECURSIVE SortAscending(_)
SortAscending(s) ==
    IF s = <<>> THEN <<>>
    ELSE InsertByKey(s[Len(s)], SortAscending(SubSeq(s, 1, Len(s) - 1)))

Reverse(s) == [k \in 1..Len(s) |-> s[Len(s) + 1 - k]]

\* tqdm_asyncio.gather (extract.py:163, main.py:82) collects <<i, value>> as
\* the tasks finish and returns `[i for _, i in sorted(res)]`: the values in
\* the order the tasks were given.
GatherResults(res) ==
    LET sorted == SortAscending(res) IN [k \in 1..Len(sorted) |-> sorted[k][2]]

\* Mutant of SortByIndex: the sort is made with reverse=True.
SortByIndexReversed(indexed_results) == Reverse(SortAscending(indexed_results))

\* indexed_results.sort(key=lambda x: x[0]), extract.py:168
SortByIndex(indexed_results) == SortAscending(indexed_results)

\* [result for index, result in indexed_results], extract.py:169
Results(indexed_results) ==
    [k \in 1..Len(indexed_results) |-> indexed_results[k][2]]

\* extract.py:163-175: gather returns, the results are sorted by index, the
\* frames are unlinked and extract_from_video returns.
ChatGatherReturns ==
    /\ pc = "dispatch"
    /\ variant = CHAT
    /\ AllReturned
    /\ LET indexed_results == SortByIndex(GatherResults(completed)) IN
       /\ message_lists' = Results(indexed_results)
       /\ IF \A k \in 1..Len(extracted_frames) : Exists(files, extracted_frames[k])
          THEN /\ files' = UnlinkAll(files, extracted_frames)
               /\ pc' = "aggregate"
               /\ UNCHANGED error
          ELSE /\ pc' = "raised"
               /\ error' = "FileNotFoundError"
               /\ UNCHANGED files
    /\ UNCHANGED <<variant, api_key, confirm, video_frames, n, frame_count,
                   saved_count, imwrites, extracted_frames, semaphore, tasks,
                   completed, remote, output>>
    /\ UNCHANGED aux

\* extract.py:82-88: to_polars, cleanup_df, write_csv.
ChatAggregate ==
    /\ pc = "aggregate"
    /\ variant = CHAT
    /\ LET df == to_polars(message_lists) IN
       IF CleanupRaises(df)
       THEN /\ pc' = "raised"
            /\ error' = "ColumnNotFoundError"
            /\ UNCHANGED output
       ELSE /\ pc' = "done"
            /\ output' = [written |-> TRUE,
                          columns |-> cleanup_df(df).columns,
                          rows |-> cleanup_df(df).rows]
            /\ UNCHANGED error
    /\ UNCHANGED <<variant, api_key, confirm, video_frames, n, files,
                   frame_count, saved_count, imwrites, extracted_frames,
                   semaphore, tasks, completed, remote, message_lists>>
    /\ UNCHANGED aux

\* main.py:85-92: the results that are not None, each a list, joined in order.
RECURSIVE ExtractedData(_)
ExtractedData(results) ==
    IF results = <<>> THEN <<>>
    ELSE (IF Head(results).none THEN <<>> ELSE Head(results).messages)
         \o ExtractedData(Tail(results))

\* main.py:82-103: gather returns, the data are combined, the frames
\* directory is removed (os.rmdir raises when it is not empty) and the output
\* is written.
GroupchatGatherReturns ==
    /\ pc = "dispatch"
    /\ variant = GROUPCHAT
    /\ AllReturned
    /\ LET extracted_results == GatherResults(completed) IN
       /\ message_lists' = extracted_results
       /\ IF files = {}
          THEN /\ pc' = "done"
               /\ output' = [written |-> TRUE,
                             columns |-> IF ExtractedData(extracted_results) = <<>>
                                         THEN {} ELSE MessageColumns,
                             rows |-> ExtractedData(extracted_results)]
               /\ UNCHANGED error
          ELSE /\ pc' = "raised"
               /\ error' = "OSError: Directory not empty"
               /\ UNCHANGED output
    /\ UNCHANGED <<variant, api_key, confirm, video_frames, n, files,
                   frame_count, saved_count, imwrites, extracted_frames,
                   semaphore, tasks, completed, remote>>
    /\ UNCHANGED aux

(* --------------------------- specification ----------------------------- *)

NoResponse == [shape |-> "none", text |-> <<>>]

NotCalled == [called |-> FALSE, raised |-> "none", value |-> <<>>]

NoPool == [frames |-> 0, waiting |-> 0, ready |-> 0, calling |-> 0,
           returned |-> 0, failed |-> 0, cancelled |-> 0, admitted |-> 0]

NotCleaned == [ran |-> FALSE, raised |-> FALSE, columns |-> {}, rows |-> <<>>]

Init ==
    /\ variant \in {CHAT, GROUPCHAT}
    /\ api_key \in BOOLEAN
    /\ files \in {{}, StaleFiles(variant)}
    /\ stale = files
    /\ confirm \in (IF variant = GROUPCHAT /\ files # {} THEN Answers ELSE {"n"})
    /\ video_frames \in (IF variant = CHAT THEN 0..MaxDecoded ELSE GroupchatVideos)
    /\ n \in (IF variant = CHAT THEN 1..MaxStride ELSE {GROUPCHAT_N})
    /\ pc = "start"
    /\ error = "none"
    /\ frame_count = 0
    /\ saved_count = 0
    /\ imwrites = <<>>
    /\ extracted_frames = <<>>
    /\ semaphore = 0
    /\ tasks = <<>>
    /\ completed = <<>>
    /\ remote = <<>>
    /\ message_lists = <<>>
    /\ output = NoFile
    /\ outcomes = <<>>
    /\ response = NoResponse
    /\ json_data = NotCalled
    /\ pool = NoPool
    /\ table = DataFrame(<<>>)
    /\ cleaned = NotCleaned

Next ==
    \/ ChatStart
    \/ GroupchatStart
    \/ ReadFrame
    \/ EndOfStream
    \/ ChatDispatch
    \/ GroupchatDispatch
    \/ \E i \in DOMAIN tasks : Acquire(i)
    \/ \E i \in DOMAIN tasks : BeginAttempt(i)
    \/ \E i \in DOMAIN tasks : \E m \in Batches : RemoteReturns(i, m)
    \/ \E i \in DOMAIN tasks : \E kind \in ErrorKinds : RemoteFails(i, kind)
    \/ CancelAllTasks
    \/ ChatGatherReturns
    \/ ChatAggregate
    \/ GroupchatGatherReturns

Spec == Init /\ [][Next]_vars


(* ----------------------------- SpecSampler ---------------------------- *)

\* extract_frames(video_path, n, output_folder) of either package, called on
\* an empty output folder.
SamplerInit ==
    /\ variant \in {CHAT, GROUPCHAT}
    /\ video_frames \in 0..MaxSamplerFrames
    /\ n \in 1..MaxSamplerStride
    /\ pc = "sampling"
    /\ api_key = TRUE
    /\ confirm = "n"
    /\ files = {}
    /\ stale = {}
    /\ error = "none"
    /\ frame_count = 0
    /\ saved_count = 0
    /\ imwrites = <<>>
    /\ extracted_frames = <<>>
    /\ semaphore = 0
    /\ tasks = <<>>
    /\ completed = <<>>
    /\ remote = <<>>
    /\ message_lists = <<>>
    /\ output = NoFile
    /\ outcomes = <<>>
    /\ response = NoResponse
    /\ json_data = NotCalled
    /\ pool = NoPool
    /\ table = DataFrame(<<>>)
    /\ cleaned = NotCleaned

SamplerNext ==
    \/ ReadFrame
    \/ EndOfStream

SpecSampler == SamplerInit /\ [][SamplerNext]_vars

(* ------------------------------- SpecPool ------------------------------ *)

\* The value the semaphore is made with (extract.py:151, main.py:68).
SemaphoreValue(v) == IF v = CHAT THEN CHAT_SEMAPHORE ELSE GROUPCHAT_SEMAPHORE

\* The tasks of gather, counted by where they are: waiting for the semaphore,
\* inside `async with semaphore` between attempts (ready) or with a remote
\* call in flight (calling), or ended. An attempt that fails and is retried
\* takes a task from calling back to ready; the attempts are not counted.
PoolInit ==
    /\ variant \in {CHAT, GROUPCHAT}
    /\ \E f \in (SemaphoreValue(variant) - 1)..(SemaphoreValue(variant) + MaxExtraFrames) :
          pool = [frames |-> f, waiting |-> f, ready |-> 0, calling |-> 0,
                  returned |-> 0, failed |-> 0, cancelled |-> 0,
                  admitted |-> 0]
    /\ semaphore = SemaphoreValue(variant)
    /\ pc = "dispatch"
    /\ error = "none"
    /\ api_key = TRUE
    /\ confirm = "n"
    /\ video_frames = 0
    /\ n = 1
    /\ files = {}
    /\ stale = {}
    /\ frame_count = 0
    /\ saved_count = 0
    /\ imwrites = <<>>
    /\ extracted_frames = <<>>
    /\ tasks = <<>>
    /\ completed = <<>>
    /\ remote = <<>>
    /\ message_lists = <<>>
    /\ output = NoFile
    /\ outcomes = <<>>
    /\ response = NoResponse
    /\ json_data = NotCalled
    /\ table = DataFrame(<<>>)
    /\ cleaned = NotCleaned

\* What SpecPool leaves alone.
notPool == <<variant, api_key, confirm, video_frames, n, files, stale, frame_count,
             saved_count, imwrites, extracted_frames, tasks, completed, remote,
             message_lists, output, outcomes, response, json_data, table,
             cleaned>>

\* `async with semaphore:` is entered by a waiting task, which then calls
\* extract_from_frame / extract_data_from_image on its frame (extract.py:155,
\* main.py:73); admitted counts these calls.
PoolAcquire ==
    /\ TasksRun
    /\ pool.waiting > 0
    /\ ~Locked(semaphore)
    /\ semaphore' = semaphore - 1
    /\ pool' = [pool EXCEPT !.waiting = @ - 1, !.ready = @ + 1,
                            !.admitted = @ + 1]
    /\ UNCHANGED <<pc, error>>
    /\ UNCHANGED notPool

\* A task inside the block sends its request.
PoolBeginAttempt ==
    /\ TasksRun
    /\ pool.ready > 0
    /\ pool' = [pool EXCEPT !.ready = @ - 1, !.calling = @ + 1]
    /\ UNCHANGED <<semaphore, pc, error>>
    /\ UNCHANGED notPool

\* A call fails and the decorator retries it; the permit is kept.
PoolAttemptRetried ==
    /\ TasksRun
    /\ pool.calling > 0
    /\ pool' = [pool EXCEPT !.calling = @ - 1, !.ready = @ + 1]
    /\ UNCHANGED <<semaphore, pc, error>>
    /\ UNCHANGED notPool

\* A call returns: the block is left and the permit released.
PoolCallReturns ==
    /\ TasksRun
    /\ pool.calling > 0
    /\ pool' = [pool EXCEPT !.calling = @ - 1, !.returned = @ + 1]
    /\ semaphore' = Released(semaphore, FALSE)
    /\ UNCHANGED <<pc, error>>
    /\ UNCHANGED notPool

\* A call fails and the exception leaves the decorated function: the block is
\* left and the permit released; chat_extract's gather raises (the exception
\* goes through the block), groupchat's task catches it inside the block and
\* returns None.
PoolCallRaises ==
    /\ TasksRun
    /\ pool.calling > 0
    /\ pool' = [pool EXCEPT !.calling = @ - 1, !.failed = @ + 1]
    /\ semaphore' = Released(semaphore, variant = CHAT)
    /\ IF variant = CHAT
       THEN /\ pc' = "raised"
            /\ error' = IF pc = "dispatch" THEN "APIConnectionError" ELSE error
       ELSE UNCHANGED <<pc, error>>
    /\ UNCHANGED notPool

\* asyncio.run cancels what is left after the run has raised.
PoolCancelAllTasks ==
    /\ pc = "raised"
    /\ pool.waiting + pool.ready + pool.calling > 0
    /\ pool' = [pool EXCEPT !.waiting = 0, !.ready = 0, !.calling = 0,
                            !.cancelled = @ + pool.waiting + pool.ready + pool.calling]
    /\ semaphore' = semaphore + pool.ready + pool.calling
    /\ UNCHANGED <<pc, error>>
    /\ UNCHANGED notPool

\* gather returns when every task has.
PoolGatherReturns ==
    /\ pc = "dispatch"
    /\ pool.returned + pool.failed = pool.frames
    /\ pc' = "done"
    /\ UNCHANGED <<semaphore, pool, error>>
    /\ UNCHANGED notPool

PoolNext ==
    \/ PoolAcquire
    \/ PoolBeginAttempt
    \/ PoolAttemptRetried
    \/ PoolCallReturns
    \/ PoolCallRaises
    \/ PoolCancelAllTasks
    \/ PoolGatherReturns

SpecPool == PoolInit /\ [][PoolNext]_vars

\* The event loop runs every task that can run, so a permit that is free is
\* taken, a task inside the block sends its request, the rest are cancelled
\* once the run has raised, and gather returns when all have ended. Every
\* remote call returns or fails, and stop_after_attempt(3) (extract.py:179,
\* main.py:133) lets a task go from a failed call to another attempt at most
\* twice, which the counters do not record: as long as calls are made, a call
\* ends its task (strong fairness).
PoolFairness ==
    /\ WF_vars(PoolAcquire)
    /\ WF_vars(PoolBeginAttempt)
    /\ SF_vars(PoolCallReturns \/ PoolCallRaises)
    /\ WF_vars(PoolCancelAllTasks)
    /\ WF_vars(PoolGatherReturns)

SpecPoolFair == PoolInit /\ [][PoolNext]_vars /\ PoolFairness

(* ------------------------------- SpecRetry ---------------------------- *)

\* One call of the decorated function (extract_from_frame, extract.py:177-216;
\* extract_data_from_image, main.py:131-164) on one frame, by a task that is
\* inside the semaphore block. outcomes records what each attempt ended with:
\* "ok" or the exception it raised.

\* The exceptions of the remote call in SpecRetry: those of Spec and another
\* error of the client.
RetryErrorKinds == ErrorKinds \cup {"RateLimitError"}

RetryInit ==
    /\ variant \in {CHAT, GROUPCHAT}
    /\ extracted_frames = << FrameFilename(variant, 0, 0) >>
    /\ files \in { {} } \cup { {[name |-> FrameFilename(variant, 0, 0), data |-> d]} :
                                d \in 0..1 }
    /\ tasks = << [NewTask EXCEPT !.pc = "ready", !.attempt = 1] >>
    /\ remote = << NoRemote >>
    /\ outcomes = <<>>
    /\ semaphore = SemaphoreValue(variant) - 1
    /\ pc = "dispatch"
    /\ error = "none"
    /\ api_key = TRUE
    /\ confirm = "n"
    /\ video_frames = 1
    /\ n = IF variant = CHAT THEN 1 ELSE GROUPCHAT_N
    /\ stale = {}
    /\ frame_count = 1
    /\ saved_count = 1
    /\ imwrites = << <<FrameFilename(variant, 0, 0), 0>> >>
    /\ completed = <<>>
    /\ message_lists = <<>>
    /\ output = NoFile
    /\ response = NoResponse
    /\ json_data = NotCalled
    /\ pool = NoPool
    /\ table = DataFrame(<<>>)
    /\ cleaned = NotCleaned

\* What SpecRetry leaves alone.
notRetry == <<variant, api_key, confirm, video_frames, n, pc, error, files,
              stale, frame_count, saved_count, imwrites, extracted_frames,
              semaphore, completed, message_lists, output, response, json_data,
              pool, table, cleaned>>

\* An attempt begins: encode_image reads the frame (extract.py:194,
\* main.py:154) and, if that did not raise, the request is sent.
RetryBeginAttempt ==
    /\ tasks[1].pc = "ready"
    /\ IF Exists(files, extracted_frames[1])
       THEN /\ tasks' = [tasks EXCEPT ![1] =
                  [@ EXCEPT !.pc = "calling",
                            !.image = ReadFile(files, extracted_frames[1])]]
            /\ remote' = [remote EXCEPT ![1].calls = @ + 1]
            /\ UNCHANGED outcomes
       ELSE /\ tasks' = [tasks EXCEPT ![1] =
                  AfterFailure(variant, @, "FileNotFoundError")]
            /\ outcomes' = Append(outcomes, "FileNotFoundError")
            /\ UNCHANGED remote
    /\ UNCHANGED notRetry

\* The remote call returns and the reply parses: the decorated function
\* returns it (extract.py:216, main.py:163-164).
RetryCallReturns(messages) ==
    /\ tasks[1].pc = "calling"
    /\ LET reply == Reply(tasks[1].image, messages) IN
       /\ remote' = [remote EXCEPT ![1].reply = reply]
       /\ tasks' = [tasks EXCEPT ![1] =
                      [@ EXCEPT !.pc = "returned", !.result = reply]]
    /\ outcomes' = Append(outcomes, "ok")
    /\ UNCHANGED notRetry

\* The remote call raises, or its reply does not parse: the decorator
\* retries, or an exception leaves the decorated function.
RetryCallRaises(kind) ==
    /\ tasks[1].pc = "calling"
    /\ remote' = [remote EXCEPT ![1].failures = @ + 1]
    /\ tasks' = [tasks EXCEPT ![1] = AfterFailure(variant, @, kind)]
    /\ outcomes' = Append(outcomes, kind)
    /\ UNCHANGED notRetry

RetryNext ==
    \/ RetryBeginAttempt
    \/ \E messages \in Batches : RetryCallReturns(messages)
    \/ \E kind \in RetryErrorKinds : RetryCallRaises(kind)

SpecRetry == RetryInit /\ [][RetryNext]_vars

(* ------------------------------- SpecJson ------------------------------ *)

\* The replies given to get_json: those without output[0].content[0].text,
\* and those with a text of up to MaxText tokens.
Responses ==
    { [shape |-> sh, text |-> <<>>] :
        sh \in {"no output", "empty output", "no content", "empty content"} }
    \cup { [shape |-> "text", text |-> t] :
             t \in UNION { [1..k -> Tokens] : k \in 0..MaxText } }

JsonInit ==
    /\ response \in Responses
    /\ json_data = NotCalled
    /\ variant = GROUPCHAT
    /\ pc = "dispatch"
    /\ error = "none"
    /\ api_key = TRUE
    /\ confirm = "n"
    /\ video_frames = 0
    /\ n = GROUPCHAT_N
    /\ files = {}
    /\ stale = {}
    /\ frame_count = 0
    /\ saved_count = 0
    /\ imwrites = <<>>
    /\ extracted_frames = <<>>
    /\ semaphore = 0
    /\ tasks = <<>>
    /\ completed = <<>>
    /\ remote = <<>>
    /\ message_lists = <<>>
    /\ output = NoFile
    /\ outcomes = <<>>
    /\ pool = NoPool
    /\ table = DataFrame(<<>>)
    /\ cleaned = NotCleaned

\* data = get_json(response), main.py:163
GetJson ==
    /\ ~json_data.called
    /\ json_data' = [called |-> TRUE,
                     raised |-> get_json(response).raised,
                     value |-> get_json(response).value]
    /\ UNCHANGED <<variant, api_key, confirm, video_frames, n, pc, error, files,
                   stale, frame_count, saved_count, imwrites, extracted_frames,
                   semaphore, tasks, completed, remote, message_lists, output,
                   outcomes, response, pool, table, cleaned>>

JsonNext == GetJson

SpecJson == JsonInit /\ [][JsonNext]_vars

(* ----------------------------- SpecToPolars ---------------------------- *)

\* The messages of the replies: one with an ISO timestamp (that of
\* test_to_polars), one whose timestamp is no ISO date, one without timestamp.
ReplyMessages ==
    { Message("Bob", "Hi there", "2022-02-02 14:00:00", Null),
      Message("Alice", "Hello", "Yesterday 3:04 PM", Null),
      Message("Alice", "Look", Null, "a photo") }

ReplyBatches == UNION { [1..k -> ReplyMessages] : k \in 0..MaxMessages }

\* The replies of up to MaxBatches frames, each a batch of up to MaxMessages
\* messages; the k-th is the reply for frame k-1.
ToPolarsInit ==
    /\ \E batches \in UNION { [1..k -> ReplyBatches] : k \in 0..MaxBatches } :
          remote = [k \in 1..Len(batches) |->
                      [calls |-> 1, failures |-> 0,
                       reply |-> Reply(k - 1, batches[k])]]
    /\ message_lists = <<>>
    /\ table = DataFrame(<<>>)
    /\ variant = CHAT
    /\ pc = "parse"
    /\ error = "none"
    /\ api_key = TRUE
    /\ confirm = "n"
    /\ video_frames = 0
    /\ n = 1
    /\ files = {}
    /\ stale = {}
    /\ frame_count = 0
    /\ saved_count = 0
    /\ imwrites = <<>>
    /\ extracted_frames = <<>>
    /\ semaphore = 0
    /\ tasks = <<>>
    /\ completed = <<>>
    /\ output = NoFile
    /\ outcomes = <<>>
    /\ response = NoResponse
    /\ json_data = NotCalled
    /\ pool = NoPool
    /\ cleaned = NotCleaned

\* What SpecToPolars leaves alone.
notToPolars == <<variant, api_key, confirm, video_frames, n, files, stale,
                 frame_count, saved_count, imwrites, extracted_frames,
                 semaphore, tasks, completed, remote, output, outcomes,
                 response, json_data, pool, cleaned>>

\* response_model=MessageList (extract.py:198): each reply is made a
\* MessageList of Messages.
ParseReplies ==
    /\ pc = "parse"
    /\ IF \E k \in 1..Len(remote) :
              NewMessageList(remote[k].reply.messages).raised # "none"
       THEN /\ pc' = "raised"
            /\ error' = "ValidationError"
            /\ UNCHANGED message_lists
       ELSE /\ pc' = "to_polars"
            /\ message_lists' =
                  [k \in 1..Len(remote) |->
                      Reply(remote[k].reply.image,
                            NewMessageList(remote[k].reply.messages).value)]
            /\ UNCHANGED error
    /\ UNCHANGED table
    /\ UNCHANGED notToPolars

\* df = to_polars(message_lists), extract.py:82
ToPolars ==
    /\ pc = "to_polars"
    /\ table' = to_polars(message_lists)
    /\ pc' = "converted"
    /\ UNCHANGED <<error, message_lists>>
    /\ UNCHANGED notToPolars

ToPolarsNext ==
    \/ ParseReplies
    \/ ToPolars

SpecToPolars == ToPolarsInit /\ [][ToPolarsNext]_vars

(* ------------------------------ SpecCleanup ---------------------------- *)

Senders == {Null, SENDER_PLACEHOLDER, "Alice"}
Texts == {Null, MESSAGE_PLACEHOLDER, "Hello"}
Timestamps == {Null, TIMESTAMP_PLACEHOLDER, "2022-01-01 12:00:00"}

\* Every combination of an absent, a placeholder and a real sender, text and
\* timestamp, without an image description; one such row with an image
\* description; a row with nothing but an image description; and a row whose
\* cells hold the placeholders of other columns.
Rows ==
    { Message(s, m, t, Null) : s \in Senders, m \in Texts, t \in Timestamps }
    \cup { Message("Alice", "Hello", "2022-01-01 12:00:00", "a photo"),
           Message(Null, Null, Null, "a photo"),
           Message(MESSAGE_PLACEHOLDER, TIMESTAMP_PLACEHOLDER,
                   SENDER_PLACEHOLDER, Null) }

RowLists == UNION { [1..k -> Rows] : k \in 0..MaxRows }

CleanupInit ==
    /\ table \in { DataFrame(rows) : rows \in RowLists }
    /\ cleaned = NotCleaned
    /\ variant = CHAT
    /\ pc = "aggregate"
    /\ error = "none"
    /\ api_key = TRUE
    /\ confirm = "n"
    /\ video_frames = 0
    /\ n = 1
    /\ files = {}
    /\ stale = {}
    /\ frame_count = 0
    /\ saved_count = 0
    /\ imwrites = <<>>
    /\ extracted_frames = <<>>
    /\ semaphore = 0
    /\ tasks = <<>>
    /\ completed = <<>>
    /\ remote = <<>>
    /\ message_lists = <<>>
    /\ output = NoFile
    /\ outcomes = <<>>
    /\ response = NoResponse
    /\ json_data = NotCalled
    /\ pool = NoPool

\* df = cleanup_df(df), extract.py:85
CleanupDf ==
    /\ ~cleaned.ran
    /\ cleaned' =
          IF CleanupRaises(table)
          THEN [ran |-> TRUE, raised |-> TRUE, columns |-> {}, rows |-> <<>>]
          ELSE LET df == cleanup_df(table)
               IN  [ran |-> TRUE, raised |-> FALSE,
                    columns |-> df.columns, rows |-> df.rows]
    /\ UNCHANGED <<variant, api_key, confirm, video_frames, n, pc, error, files,
                   frame_count, saved_count, imwrites, extracted_frames,
                   semaphore, tasks, completed, remote, message_lists, output,
                   stale, outcomes, response, json_data, pool, table>>

CleanupNext == CleanupDf

SpecCleanup == CleanupInit /\ [][CleanupNext]_vars

(* ======================= claims checked under Spec ===================== *)

\* extract_from_video of chat_extract has returned.
ChatReturned ==
    /\ variant = CHAT
    /\ \/ pc \in {"aggregate", "done"}
       \/ pc = "raised" /\ error = "ColumnNotFoundError"

\* Task i's remote call failed on every one of its MAX_ATTEMPT attempts.
Exhausted(i) == remote[i].failures = MAX_ATTEMPT

\* C1: when chat_extract's extract_from_video returns, its list has one entry
\* per sampled frame and entry i is the reply the model client gave for the
\* i-th sampled frame (the frame saved from decode index (i-1)*n), whatever
\* the order in which the calls completed.
C1_ResultsInFrameOrder ==
    ChatReturned =>
        /\ Len(message_lists) = Len(extracted_frames)
        /\ \A i \in 1..Len(message_lists) :
              /\ message_lists[i] = remote[i].reply
              /\ message_lists[i].image = imwrites[i][2]
              /\ message_lists[i].image = (i - 1) * n

\* C1 witness: three frames, the second completed first, then the first, then
\* the third, and extract_from_video has returned.
C1_Witness ==
    /\ ChatReturned
    /\ Len(completed) = 3
    /\ completed[1][1] = 2 /\ completed[2][1] = 1 /\ completed[3][1] = 3

\* C3 (as claimed): a frame of chat_extract whose remote call failed on all
\* three attempts gets an empty MessageBatch, no other frame's task is
\* cancelled, and the run does not end with an error.
C3_ExhaustedFrameIsSubstituted ==
    variant = CHAT =>
        \A i \in DOMAIN tasks :
            Exhausted(i) =>
                /\ tasks[i].pc = "returned"
                /\ tasks[i].result = Reply(tasks[i].image, <<>>)
                /\ pc # "raised"
                /\ \A j \in DOMAIN tasks : tasks[j].pc # "cancelled"

\* C4 (as claimed): once chat_extract's extract_from_video has ended, by
\* returning or by the error of a frame's model call, no frame file that the
\* sampler wrote is left in the frames directory.
C4_NoFrameFileLeft ==
    (ChatReturned \/ (variant = CHAT /\ pc = "raised" /\ tasks # <<>>)) =>
        \A k \in 1..Len(extracted_frames) : ~Exists(files, extracted_frames[k])

\* C5: in chat_extract a frame whose remote call failed on the first and the
\* second attempt is given a third attempt (no error reaches the task after
\* two failures), and when the third attempt succeeds the task returns
\* exactly that reply, with no error.
C5_ThirdAttemptSucceeds ==
    variant = CHAT =>
        \A i \in DOMAIN tasks :
            /\ remote[i].failures = 2 => tasks[i].pc # "raised"
            /\ (remote[i].failures = 2 /\ remote[i].calls = 3
                    /\ ~remote[i].reply.none) =>
                  /\ tasks[i].pc = "returned"
                  /\ tasks[i].attempt = 3
                  /\ tasks[i].result = remote[i].reply
                  /\ tasks[i].error = "none"
                  /\ \E c \in 1..Len(completed) :
                        completed[c] = <<i, <<i - 1, remote[i].reply>>>>

\* C5 witness: a frame's call failed twice, succeeded on the third attempt, and
\* its run has written the output.
C5_Witness ==
    /\ variant = CHAT
    /\ pc = "done"
    /\ \E i \in DOMAIN tasks :
          /\ remote[i].failures = 2 /\ remote[i].calls = 3
          /\ tasks[i].pc = "returned"
          /\ tasks[i].result.messages # <<>>

\* C6 (as claimed, in the case it is about): a chat_extract run in which some
\* frame's model call failed on all attempts still ends with the output file
\* written, holding the messages of every frame whose call succeeded.
C6_OutputWrittenDespiteFailedFrame ==
    (variant = CHAT /\ pc \in {"done", "raised"}
        /\ \E i \in DOMAIN tasks : Exhausted(i)) =>
        /\ output.written
        /\ \A j \in DOMAIN tasks :
              tasks[j].pc = "returned" =>
                  \A m \in 1..Len(tasks[j].result.messages) :
                      \E r \in 1..Len(output.rows) :
                          output.rows[r] = WithColumns(tasks[j].result.messages[m])

\* The run was stopped by a configuration error: no credential, or a frames
\* directory that the user did not let groupchat empty.
ConfigurationError ==
    \/ ~api_key
    \/ error = "ValueError: Frames directory must be empty"

\* C9 (as claimed): a run on a video that yields no frame, with its
\* configuration in order, does not raise, and ends with a written output file
\* of zero rows, in both packages.
C9_ZeroFramesWriteEmptyFile ==
    (video_frames = 0 /\ ~ConfigurationError) =>
        /\ pc # "raised"
        /\ pc = "done" => (output.written /\ output.rows = <<>>)

\* C13 (as claimed): while the API credential is absent a run does no work, in
\* either package: the frames directory holds what it held at first (no file
\* created, none deleted), no frame has been read or written, and no model
\* call has been made.
C13_NoWorkWithoutCredential ==
    ~api_key =>
        /\ files = stale
        /\ frame_count = 0
        /\ imwrites = <<>>
        /\ \A i \in DOMAIN remote : remote[i].calls = 0

\* C14: once chat_extract's extract_from_video has been entered and has
\* cleared the frames directory, that is from the moment frame sampling
\* begins, no file that was there before the run is there; and when
\* extract_from_video has returned, no file of such a name is there either.
C14_ScratchClearedAtStart ==
    (variant = CHAT /\ api_key /\ pc # "start") =>
        /\ \A f \in stale : f \notin files
        /\ ChatReturned => \A f \in stale : ~Exists(files, f.name)

\* C14 witness: a chat_extract run that found an old frame and another file
\* in its frames directory has sampled frames and written its output.
C14_Witness ==
    /\ variant = CHAT
    /\ stale = StaleFiles(CHAT)
    /\ pc = "done"
    /\ Len(imwrites) > 1

\* C15 (as claimed): a file that was in the frames directory before the run
\* is gone only if the user was asked and answered yes, in either package.
C15_StaleDeletedOnlyWithConfirmation ==
    (\E f \in stale : f \notin files) => StripLower(confirm) = "y"

\* What the frames 1..i give to groupchat's output: the messages of the
\* replies of the frames whose call did not raise, in frame order.
RECURSIVE Contributions(_)
Contributions(i) ==
    IF i = 0 THEN <<>>
    ELSE Contributions(i - 1)
         \o (IF tasks[i].error = "none" THEN remote[i].reply.messages ELSE <<>>)

\* C22: in groupchat_text_extraction a frame's file is gone once its task has
\* ended, whether the call returned or raised; a task whose call raised ends
\* with None and neither makes the run raise nor gets another task cancelled;
\* and the output, once written, holds the messages of the frames whose call
\* returned and nothing for the others.
C22_FailedFrameRemovedAndSkipped ==
    (variant = GROUPCHAT /\ tasks # <<>>) =>
        /\ pc \in {"dispatch", "done"}
        /\ \A i \in DOMAIN tasks :
              /\ tasks[i].pc \in {"pending", "ready", "calling", "returned"}
              /\ tasks[i].pc = "returned" =>
                    /\ ~Exists(files, extracted_frames[i])
                    /\ tasks[i].error # "none" => tasks[i].result = NoneData
        /\ pc = "done" =>
              /\ \A i \in DOMAIN tasks : tasks[i].pc = "returned"
              /\ output.written
              /\ output.rows = Contributions(Len(tasks))

\* C22 witness: of two frames of a groupchat run the call of one raised on
\* every attempt and the other's returned a message; both files are gone and
\* the output holds that message alone.
C22_Witness ==
    /\ variant = GROUPCHAT
    /\ pc = "done"
    /\ Len(tasks) = 2
    /\ Exhausted(1)
    /\ tasks[1].result = NoneData
    /\ tasks[2].error = "none"
    /\ files = {}
    /\ output.written
    /\ output.rows = remote[2].reply.messages
    /\ Len(output.rows) = 1

\* C24: a groupchat run that finds files in the frames directory and gets an
\* answer that is not y after strip() and lower() ends at once with
\* ValueError, and nothing has changed: the directory holds what it held, no
\* frame was read or written, no task or model call was made, no output
\* written.
C24_RefusalLeavesStateUnchanged ==
    (variant = GROUPCHAT /\ stale # {} /\ confirm \notin {"y", " Y "}
        /\ pc # "start") =>
        /\ pc = "raised"
        /\ error = "ValueError: Frames directory must be empty"
        /\ files = stale
        /\ frame_count = 0
        /\ saved_count = 0
        /\ imwrites = <<>>
        /\ tasks = <<>>
        /\ remote = <<>>
        /\ output = NoFile

\* C24 witness: the user answered yes, which is not y; the run raised and the
\* old files are there.
C24_Witness ==
    /\ variant = GROUPCHAT
    /\ confirm = "yes"
    /\ api_key
    /\ video_frames > 0
    /\ pc = "raised"
    /\ stale = StaleFiles(GROUPCHAT)
    /\ files = stale

\* C25: in both packages, as long as a frame's task has not ended (it waits
\* for a permit, is between attempts, or has a call in flight) the frame's
\* file exists with the content the sampler wrote; so every attempt, retries
\* included, finds the file, and no attempt ever fails on a missing file.
C25_FrameFileOutlivesItsCall ==
    \A i \in DOMAIN tasks :
        /\ tasks[i].pc \in {"pending", "ready", "calling"} =>
              /\ Exists(files, extracted_frames[i])
              /\ \E w \in 1..Len(imwrites) :
                    imwrites[w] = <<extracted_frames[i],
                                    ReadFile(files, extracted_frames[i])>>
        /\ tasks[i].pc = "calling" =>
              tasks[i].image = ReadFile(files, extracted_frames[i])
        /\ tasks[i].error # "FileNotFoundError"

\* C25 witness: in a groupchat run the first frame's task has ended and its
\* file is removed, while the second frame's call is in flight on its third
\* attempt and its file is there.
C25_Witness ==
    /\ variant = GROUPCHAT
    /\ Len(tasks) = 2
    /\ tasks[1].pc = "returned"
    /\ ~Exists(files, extracted_frames[1])
    /\ tasks[2].pc = "calling"
    /\ tasks[2].attempt = 3
    /\ Exists(files, extracted_frames[2])


(* =================== claims checked under SpecSampler ================== *)

\* The least integer that is at least a / b.
Ceil(a, b) == (a + b - 1) \div b

\* C7: when chat_extract's extract_frames returns on a video of F decoded
\* frames with stride n, it has saved exactly ceil(F / n) frames, the k-th of
\* them the frame of decode index (k-1)*n, and the paths it returns are those
\* files in that order.
C7_SamplerEmitsEveryNth ==
    (variant = CHAT /\ pc = "sampled") =>
        /\ saved_count = Ceil(video_frames, n)
        /\ Len(imwrites) = Ceil(video_frames, n)
        /\ Len(extracted_frames) = Ceil(video_frames, n)
        /\ \A k \in 1..Len(extracted_frames) :
              /\ imwrites[k] = <<extracted_frames[k], (k - 1) * n>>
              /\ Exists(files, extracted_frames[k])
              /\ ReadFile(files, extracted_frames[k]) = (k - 1) * n

\* C7 witness: five decoded frames at stride two give three saved frames.
C7_Witness ==
    /\ variant = CHAT /\ pc = "sampled"
    /\ video_frames = 5 /\ n = 2
    /\ Len(extracted_frames) = 3

\* C8 (as claimed): in both packages the k-th frame written (k = 0, 1, ...) is
\* named frame_k and holds the frame of decode index k*n.
C8_FramesNumberedByEmission ==
    \A k \in 1..Len(imwrites) :
        /\ imwrites[k][1].stem = k - 1
        /\ imwrites[k][2] = (k - 1) * n

(* ==================== claims checked under SpecRetry =================== *)

\* C17: one call of chat_extract's extract_from_frame makes at most three
\* attempts and at most three remote calls; and when three attempts have
\* failed there is no further attempt: the call has ended with the exception
\* that the third attempt raised.
C17_ThreeAttemptsThenLastError ==
    variant = CHAT =>
        /\ Len(outcomes) <= 3
        /\ remote[1].calls <= 3
        /\ tasks[1].attempt <= 3
        /\ (Len(outcomes) = 3 /\ \A k \in 1..3 : outcomes[k] # "ok") =>
              /\ tasks[1].pc = "raised"
              /\ tasks[1].error = outcomes[3]
        /\ (Len(outcomes) < 3 /\ \A k \in 1..Len(outcomes) : outcomes[k] # "ok") =>
              tasks[1].pc \in {"ready", "calling"}

\* C17 witness: the remote call of a chat_extract frame raised one exception
\* twice and another the third time; extract_from_frame ended with the third.
C17_Witness ==
    /\ variant = CHAT
    /\ outcomes = <<"OpenAIResponseError", "OpenAIResponseError",
                    "APIConnectionError">>
    /\ remote[1].calls = 3
    /\ tasks[1].pc = "raised"
    /\ tasks[1].error = "APIConnectionError"

(* ==================== claims checked under SpecJson ==================== *)

\* C18 (as claimed): whatever the reply, get_json returns a parsed JSON value
\* or raises OpenAIResponseError; no other exception leaves it.
C18_GetJsonReturnsOrRaisesTyped ==
    json_data.called =>
        \/ json_data.raised = "none" /\ IsJsonValue(json_data.value)
        \/ json_data.raised = "OpenAIResponseError"

\* The exceptions of the remote call that are network or service errors.
TransientErrors == {"APIConnectionError", "RateLimitError"}

\* C23 (as claimed): when groupchat's extract_data_from_image has ended with
\* an exception because its remote call raised a network or service error,
\* the call had been attempted three times.
C23_TransientErrorRetriedToCap ==
    (variant = GROUPCHAT /\ tasks[1].pc = "raised" /\ outcomes # <<>>
        /\ outcomes[Len(outcomes)] \in TransientErrors) =>
        /\ Len(outcomes) = 3
        /\ remote[1].calls = 3

(* =================== claims checked under SpecToPolars ================= *)

\* How many messages the replies of the frames before the i-th hold.
RECURSIVE RepliedBefore(_)
RepliedBefore(i) ==
    IF i <= 1 THEN 0
    ELSE RepliedBefore(i - 1) + Len(remote[i - 1].reply.messages)

RECURSIVE MessagesBefore(_)
MessagesBefore(i) ==
    IF i <= 1 THEN 0
    ELSE MessagesBefore(i - 1) + Len(message_lists[i - 1].messages)

\* C20: the rows to_polars makes are the messages of the first list in their
\* order, then those of the second, and so on: the k-th message of list i is
\* the row after the rows of the lists before i and the k-1 messages before
\* it, and there are as many rows as messages.
C20_RowsAreOrderedConcatenation ==
    pc = "converted" =>
        /\ Len(table.rows) = MessagesBefore(Len(message_lists) + 1)
        /\ \A i \in 1..Len(message_lists) :
              \A k \in 1..Len(message_lists[i].messages) :
                  table.rows[MessagesBefore(i) + k] = message_lists[i].messages[k]

\* C20 witness: two frames with two different messages each, the first frame's
\* second message differing from the second frame's first; four rows.
C20_Witness ==
    /\ pc = "converted"
    /\ Len(message_lists) = 2
    /\ Len(message_lists[1].messages) = 2
    /\ Len(message_lists[2].messages) = 2
    /\ message_lists[1].messages[1] # message_lists[1].messages[2]
    /\ message_lists[1].messages[2] # message_lists[2].messages[1]
    /\ message_lists[2].messages[1] # message_lists[2].messages[2]
    /\ table.rows = message_lists[1].messages \o message_lists[2].messages

(* ==================== claims checked under SpecPool ==================== *)

\* C2: the number of remote calls in flight never exceeds the value the
\* semaphore was made with (20 in chat_extract, 10 in groupchat), also when
\* there are more frames than permits.
C2_CallsInFlightAtMostCeiling ==
    /\ pool.calling <= SemaphoreValue(variant)
    /\ pool.ready + pool.calling <= SemaphoreValue(variant)

\* C2 witness: more frames than permits, every permit used by a call in
\* flight, and a task still waiting.
C2_Witness ==
    /\ pool.frames > SemaphoreValue(variant)
    /\ pool.calling = SemaphoreValue(variant)
    /\ pool.waiting > 0

\* C16: in every state the permits left in the semaphore plus the frames that
\* are inside the `async with` block (the model calls in flight, between
\* attempts included) make the value the semaphore was created with, also
\* after calls have failed; so while that many frames are not inside the
\* block a waiting frame finds a permit.
C16_PermitsConserved ==
    /\ semaphore + pool.ready + pool.calling = SemaphoreValue(variant)
    /\ semaphore >= 0
    /\ (pool.waiting > 0 /\ pool.ready + pool.calling < SemaphoreValue(variant))
            => semaphore > 0

\* C16 witness: more frames than permits, calls have failed, a frame was
\* still waiting then, and a permit is free for it.
C16_Witness ==
    /\ pool.frames > SemaphoreValue(variant)
    /\ pool.failed >= 2
    /\ pool.waiting > 0
    /\ semaphore > 0

\* The run of the pool is over: gather has returned or raised, and no task is
\* left waiting or inside the block.
PoolSettled ==
    /\ pc \in {"done", "raised"}
    /\ pool.waiting + pool.ready + pool.calling = 0

\* C21 (as claimed): when chat_extract's extract_from_video is over, whether
\* it returned or raised, extract_from_frame has been called for every frame
\* the sampler gave, once each: as many calls as frames, no frame skipped.
C21_EveryFrameHandedOverOnce ==
    (variant = CHAT /\ PoolSettled) => pool.admitted = pool.frames

\* C26 (as claimed): in chat_extract, under the fairness above, every frame's
\* task is eventually admitted by the semaphore, and extract_from_video
\* eventually returns or raises.
C26_AllAdmittedAndRunEnds ==
    (variant = CHAT) =>
        /\ <>(pool.admitted = pool.frames)
        /\ <>(pc \in {"done", "raised"})

(* =================== claims checked under SpecCleanup ================== *)

\* The rows of the input after the placeholder replacement, in input order.
Replaced == [k \in 1..Len(table.rows) |-> WithColumns(table.rows[k])]

\* C10: the frame cleanup_df returns holds no two equal rows; every row of it
\* occurs in the input (after the placeholder replacement); of two rows of it,
\* the earlier one occurs in the input before every occurrence of the later
\* one, so the rows stand in the order of their first occurrences; and every
\* input row that is not entirely null is still represented.
C10_UniqueKeepsFirstInOrder ==
    (cleaned.ran /\ ~cleaned.raised) =>
        LET rep == Replaced
            out == cleaned.rows
        IN  /\ \A p, q \in 1..Len(out) : p # q => out[p] # out[q]
            /\ \A p \in 1..Len(out) : \E k \in 1..Len(rep) : rep[k] = out[p]
            /\ \A p, q \in 1..Len(out) :
                  p < q => \E k \in 1..Len(rep) :
                              /\ rep[k] = out[p]
                              /\ \A j \in 1..k : rep[j] # out[q]
            /\ \A k \in 1..Len(rep) :
                  NotEntirelyNull(rep[k]) =>
                      \E p \in 1..Len(out) : out[p] = rep[k]

\* C10 witness: a row, another row, and the first row again, of which
\* cleanup_df returned the first two; the two rows differ in image_description
\* alone.
C10_Witness ==
    /\ cleaned.ran /\ ~cleaned.raised
    /\ Len(table.rows) = 3
    /\ table.rows[1] = table.rows[3]
    /\ table.rows[1] # table.rows[2]
    /\ table.rows[1].image_description # table.rows[2].image_description
    /\ [table.rows[1] EXCEPT !.image_description = Null]
         = [table.rows[2] EXCEPT !.image_description = Null]
    /\ cleaned.rows = <<table.rows[1], table.rows[2]>>

\* C11: cleanup_df drops exactly the rows whose sender, message and timestamp
\* are all unknown after the placeholder replacement: no row of the result has
\* the three unknown, and every input row with a known sender, message or
\* timestamp is equal to a row of the result.
C11_DropsExactlyUnknownRows ==
    (cleaned.ran /\ ~cleaned.raised) =>
        LET rep == Replaced
            out == cleaned.rows
        IN  /\ \A p \in 1..Len(out) :
                  ~(out[p].sender = Null /\ out[p].message = Null
                        /\ out[p].timestamp = Null)
            /\ \A k \in 1..Len(rep) :
                  (rep[k].sender # Null \/ rep[k].message # Null
                        \/ rep[k].timestamp # Null) =>
                      \E p \in 1..Len(out) : out[p] = rep[k]

\* C11 witness: a row of placeholders and nulls, a row that has an image
\* description and nothing else, and a row whose only known cell is its
\* timestamp; cleanup_df returned the third row alone.
C11_Witness ==
    /\ cleaned.ran /\ ~cleaned.raised
    /\ table.rows = <<Message(SENDER_PLACEHOLDER, Null, TIMESTAMP_PLACEHOLDER, Null),
                      Message(Null, Null, Null, "a photo"),
                      Message(Null, MESSAGE_PLACEHOLDER, "2022-01-01 12:00:00", Null)>>
    /\ cleaned.rows = <<Message(Null, Null, "2022-01-01 12:00:00", Null)>>

\* The row cleanup_df is claimed to make of the input row r: each of the three
\* cells null exactly when it holds the placeholder of its own column, and
\* every other cell as it was.
ClaimedReplacement(r) ==
    [sender |-> IF r.sender = "<sender_name>" THEN Null ELSE r.sender,
     message |-> IF r.message = "<message_text>" THEN Null ELSE r.message,
     timestamp |-> IF r.timestamp = "<timestamp>" THEN Null ELSE r.timestamp,
     image_description |-> r.image_description]

\* C12: every row cleanup_df returns is an input row in which the sender is
\* made null iff it was '<sender_name>', the message iff it was
\* '<message_text>', the timestamp iff it was '<timestamp>', every other cell
\* unchanged; and every input row of which a known cell remains has that row
\* in the result.
C12_PlaceholdersReplacedPerField ==
    (cleaned.ran /\ ~cleaned.raised) =>
        LET out == cleaned.rows
            inp == table.rows
        IN  /\ \A p \in 1..Len(out) :
                  \E k \in 1..Len(inp) : out[p] = ClaimedReplacement(inp[k])
            /\ \A k \in 1..Len(inp) :
                  LET c == ClaimedReplacement(inp[k]) IN
                  (c.sender # Null \/ c.message # Null \/ c.timestamp # Null) =>
                      \E p \in 1..Len(out) : out[p] = c

\* C12 witness: a row with the sender placeholder alone, a row whose cells
\* hold the placeholders of other columns, and a row with the three
\* placeholders; the first came back without its sender, the second as it
\* was, the third not at all.
C12_Witness ==
    /\ cleaned.ran /\ ~cleaned.raised
    /\ table.rows = <<Message(SENDER_PLACEHOLDER, "Hello", "2022-01-01 12:00:00", Null),
                      Message(MESSAGE_PLACEHOLDER, TIMESTAMP_PLACEHOLDER,
                              SENDER_PLACEHOLDER, Null),
                      Message(SENDER_PLACEHOLDER, MESSAGE_PLACEHOLDER,
                              TIMESTAMP_PLACEHOLDER, Null)>>
    /\ cleaned.rows = <<Message(Null, "Hello", "2022-01-01 12:00:00", Null),
                        Message(MESSAGE_PLACEHOLDER, TIMESTAMP_PLACEHOLDER,
                                SENDER_PLACEHOLDER, Null)>>

\* C27: cleanup_df applied to the frame cleanup_df returned gives that frame
\* again: the same columns and the same rows in the same order.
C27_CleanupIdempotent ==
    (cleaned.ran /\ ~cleaned.raised) =>
        LET once == [columns |-> cleaned.columns, rows |-> cleaned.rows]
        IN  /\ ~CleanupRaises(once)
            /\ cleanup_df(once) = once

\* C27 witness: a table whose first pass replaced a placeholder, dropped a row
\* and merged two rows that the replacement made equal; one row is left.
C27_Witness ==
    /\ cleaned.ran /\ ~cleaned.raised
    /\ table.rows = <<Message(SENDER_PLACEHOLDER, "Hello", Null, Null),
                      Message(SENDER_PLACEHOLDER, MESSAGE_PLACEHOLDER, Null, Null),
                      Message(Null, "Hello", Null, Null)>>
    /\ cleaned.rows = <<Message(Null, "Hello", Null, Null)>>
    /\ cleanup_df([columns |-> cleaned.columns, rows |-> cleaned.rows]).rows
          = cleaned.rows

====
